---- MODULE Spec2Model ----
(***************************************************************************)
(* batch-renamer: print-rename / rename() (one file, one external command, *)
(* a temporary directory and the live directory) and batch-rename (the     *)
(* buffered dry-run stream, the confirmation loop and the spawned          *)
(* real-rename tasks on the tokio blocking pool).                          *)
(***************************************************************************)
EXTENDS Integers, Sequences, FiniteSets, TLC

\* ------------------------------------------------------------------ bounds
\* Longest file list given to batch-rename in the per-file model.
MaxFiles == 2
\* Most "not understood" answers typed in one batch run.
MaxRetries == 1
\* Files beyond the dry-run window in the load model of the dry-run stream.
ExtraFiles == 2

\* ---------------------------------------------------- files and directories
\* File names of the model.  "a " ends in white space (trim_end cuts it);
\* l is a symbolic link to c.
Names == {"a", "b", "c", "a ", "l"}

\* Content of a directory entry that does not exist.
NoFile == "-"
\* Content of the zero-byte placeholder, write(&tmp_file, b"").
Placeholder == "empty"

\* Content of the symbolic link l.
LinkToC == "->c"

\* The live directory before a run: a, b and c exist, each tagged by its
\* name, and l links to c.
LiveDir0 ==
  [n \in Names |-> IF n \in {"a", "b", "c"} THEN n
                   ELSE IF n = "l" THEN LinkToC ELSE NoFile]
\* A fresh temporary directory, tempdir().
EmptyDir == [n \in Names |-> NoFile]

Entries(d) == {n \in Names : d[n] # NoFile}

\* -------------------------------------------------------- external command
\* The external rename commands of the model (the program under argv).
\*   swap   renames a <-> b, keeps every other name (its own inverse)
\*   toC    renames every file to c
\*   pad    renames a to "a ", keeps every other name
\*   copy   as swap, but leaves the old entry in place (an additional entry)
\*   keep   as swap, but exits non-zero when the new name is already taken
\*   rm     deletes the file and exits 0
\*   false  exits non-zero and changes nothing
Cmds == {"swap", "toC", "pad", "copy", "keep", "rm", "false"}

Target(c, n) ==
  CASE c \in {"swap", "copy", "keep"} -> (IF n = "a" THEN "b" ELSE IF n = "b" THEN "a" ELSE n)
    [] c = "toC" -> "c"
    [] c = "pad" -> (IF n = "a" THEN "a " ELSE n)
    [] OTHER -> n

\* Exit status of `c n` run with working directory d: zero or not.
CmdOk(c, d, n) ==
  CASE c = "false" -> FALSE
    [] c = "rm" -> TRUE
    [] c = "keep" -> d[n] # NoFile /\ (Target(c, n) = n \/ d[Target(c, n)] = NoFile)
    [] OTHER -> d[n] # NoFile

\* The working directory after `c n` ran in it (mv semantics: an existing
\* entry of the target name is replaced).
CmdDir(c, d, n) ==
  IF ~CmdOk(c, d, n) THEN d
  ELSE CASE c = "rm" -> [d EXCEPT ![n] = NoFile]
         [] c = "copy" -> [d EXCEPT ![Target(c, n)] = d[n]]
         [] OTHER -> IF Target(c, n) = n THEN d
                     ELSE [d EXCEPT ![Target(c, n)] = d[n], ![n] = NoFile]

\* ------------------------------------------------------------------- paths
\* A path is the sequence of its components below the root; <<>> is "/".
LiveRoot == "live"
NoPath == <<"?">>

\* Path::parent and Path::file_name; None is modelled by NoPath.
Parent(p) == IF p = <<>> THEN NoPath ELSE SubSeq(p, 1, Len(p) - 1)
FileName(p) == IF p = <<>> THEN NoFile ELSE p[Len(p)]
Join(d, n) == Append(d, n)

\* canonicalize(file) for an argument naming an entry of the live directory,
\* or "/" itself: symbolic links are resolved; NoPath when the entry, or the
\* target of the link, does not exist.
Canonicalize(f, d) ==
  IF f = "/" THEN <<>>
  ELSE IF f \notin Names \/ d[f] = NoFile THEN NoPath
  ELSE IF d[f] # LinkToC THEN <<LiveRoot, f>>
  ELSE IF d["c"] \notin {NoFile, LinkToC} THEN <<LiveRoot, "c">>
  ELSE NoPath

\* The temporary directory after `c n` ran on the placeholder named n.
TmpAfter(c, n) == CmdDir(c, [EmptyDir EXCEPT ![n] = Placeholder], n)

\* ===================================================== rename / print-rename
\* One call of rename(file, command, dry_run) (lib.rs), which is also main of
\* print-rename (print-rename.rs) with dry_run = args.dry_run.
VARIABLES
  live,        \* the live directory: name -> content
  prog,        \* "rename" (lib.rs) or "print-rename" (the binary)
  dry_run,     \* argument dry_run / flag --dry-run
  file,        \* argument file
  command,     \* argument command, a sequence of words
  pc,          \* position in the call
  tmp_exists,  \* the TempDir exists on disk
  tmp,         \* entries of the temporary directory
  path,        \* canonicalize(file)
  new,         \* file name of the entry read from the temporary directory
  ret,         \* "none", "ok" (Ok / exit 0) or "err" (Err / exit non-zero)
  ret_path,    \* the path returned (rename) or printed (print-rename)
  invoked      \* working directories the command was run in, in order

rvars == <<prog, dry_run, file, command, pc, tmp_exists, tmp, path, new, ret,
           ret_path, invoked>>

\* batch-rename, per file (batch-rename.rs main).
VARIABLES
  files,          \* the file arguments after "--"
  cmd,            \* the command words before "--"
  run,            \* which run of batch-rename this is: 1, or 2 for a second one
  pulled,         \* files taken from stream::iter: dry-run tasks spawned
  consumed,       \* results taken from src_dst by the while loop
  dry,            \* dry-run task of each file: [st, out]
  mpc,            \* main: "next", "prompt", "returned" or "exited"
  cur,            \* index of the file of the pending prompt (0: none)
  tasks,          \* real-rename tasks spawned, in order: [idx, args, st]
  decision,       \* answer last matched for each file
  shown,          \* times the "Would rename" prompt was printed, per file
  misunderstood,  \* "Response ... not understood" lines printed
  result          \* main's result: "none", "ok" or "err"

bvars == <<files, cmd, run, pulled, consumed, dry, mpc, cur, tasks, decision, shown,
           misunderstood, result>>

\* batch-rename under load, dry-run stream only: counts of tasks.
VARIABLES
  d_files,     \* number of file arguments
  d_pulled,    \* dry-run tasks spawned
  d_consumed,  \* results taken by the while loop
  d_done,      \* spawned tasks that completed and are not yet consumed
  d_head,      \* the oldest task of the window has completed
  d_pc         \* main: "next", "body" or "returned"

dvars == <<d_files, d_pulled, d_consumed, d_done, d_head, d_pc>>

\* batch-rename under load, real-rename tasks only: counts of tasks.
VARIABLES
  l_files,     \* number of file arguments
  l_consumed,  \* results taken by the while loop
  l_queued,    \* real-rename tasks spawned and not yet picked up by a thread
  l_running,   \* real-rename tasks running on a blocking thread
  l_pc         \* main: "next", "prompt" or "returned"

lvars == <<l_files, l_consumed, l_queued, l_running, l_pc>>

vars == <<live, rvars, bvars, dvars, lvars>>

\* The variables of the other machines, idle.
IdleRename ==
  /\ prog = "print-rename" /\ dry_run = TRUE /\ file = "a" /\ command = <<>>
  /\ pc = "idle" /\ tmp_exists = FALSE /\ tmp = EmptyDir /\ path = NoPath
  /\ new = NoFile /\ ret = "none" /\ ret_path = NoPath /\ invoked = <<>>
IdleBatch ==
  /\ files = <<>> /\ cmd = <<>> /\ run = 0 /\ pulled = 0 /\ consumed = 0 /\ dry = <<>>
  /\ mpc = "idle" /\ cur = 0 /\ tasks = <<>> /\ decision = <<>> /\ shown = <<>>
  /\ misunderstood = 0 /\ result = "none"
IdleDryLoad ==
  /\ d_files = 0 /\ d_pulled = 0 /\ d_consumed = 0 /\ d_done = 0
  /\ d_head = FALSE /\ d_pc = "idle"
IdleRealLoad ==
  /\ l_files = 0 /\ l_consumed = 0 /\ l_queued = 0 /\ l_running = 0
  /\ l_pc = "idle"

RenameFiles == {"a", "b", "c", "a ", "l", "/"}
Commands == {<<>>} \cup {<<c>> : c \in Cmds}

RInit ==
  /\ live = LiveDir0
  /\ prog \in {"rename", "print-rename"}
  /\ dry_run \in BOOLEAN
  /\ file \in RenameFiles
  /\ command \in Commands
  \* clap: command is required, so print-rename never sees an empty one
  /\ prog = "print-rename" => command # <<>>
  /\ pc = "tempdir"
  /\ tmp_exists = FALSE
  /\ tmp = EmptyDir
  /\ path = NoPath
  /\ new = NoFile
  /\ ret = "none"
  /\ ret_path = NoPath
  /\ invoked = <<>>
  /\ IdleBatch /\ IdleDryLoad /\ IdleRealLoad

\* (C14 mutant) an early return that leaves the temporary directory behind.
BailLeaking ==
  /\ pc' = "done"
  /\ ret' = "err"
  /\ UNCHANGED <<tmp_exists, tmp>>

\* An early return through `?`: the error is returned and tmp is dropped,
\* which removes the temporary directory.
Bail ==
  /\ pc' = "done"
  /\ ret' = "err"
  /\ tmp_exists' = FALSE
  /\ tmp' = EmptyDir

\* (C20 mutant) the exit status of the command is not looked at.
SucceededAlways(c, d, n) == TRUE

\* evaluate(): the invocation is a success exactly when the exit status is 0.
Succeeded(c, d, n) == CmdOk(c, d, n)

\* let tmp = tempdir()?
Tempdir ==
  /\ pc = "tempdir"
  /\ \/ /\ pc' = "canonicalize"
        /\ tmp_exists' = TRUE
        /\ UNCHANGED <<tmp, ret>>
     \/ Bail
  /\ UNCHANGED <<live, prog, dry_run, file, command, path, new, ret_path, invoked>>
  /\ UNCHANGED <<bvars, dvars, lvars>>

\* let path = canonicalize(file)?; dir = path.parent()?; file = path.file_name()?
CanonicalizeStep ==
  /\ pc = "canonicalize"
  /\ LET p == Canonicalize(file, live) IN
       IF p = NoPath \/ Parent(p) = NoPath \/ FileName(p) = NoFile
       THEN Bail /\ UNCHANGED path
       ELSE /\ path' = p
            /\ pc' = "write"
            /\ UNCHANGED <<tmp_exists, tmp, ret>>
  /\ UNCHANGED <<live, prog, dry_run, file, command, new, ret_path, invoked>>
  /\ UNCHANGED <<bvars, dvars, lvars>>

\* write(&tmp_file, b"")?
WritePlaceholder ==
  /\ pc = "write"
  /\ \/ /\ tmp' = [tmp EXCEPT ![FileName(path)] = Placeholder]
        /\ pc' = "run_tmp"
        /\ UNCHANGED <<tmp_exists, ret>>
     \/ Bail
  /\ UNCHANGED <<live, prog, dry_run, file, command, path, new, ret_path, invoked>>
  /\ UNCHANGED <<bvars, dvars, lvars>>

\* command.split_first()?, then run_in(cmd, args + [file], tmp.path())?
RunInTmp ==
  /\ pc = "run_tmp"
  /\ \/ /\ command = <<>>
        /\ Bail
        /\ UNCHANGED invoked
     \/ /\ command # <<>>
        \* the process could not be spawned
        /\ Bail
        /\ UNCHANGED invoked
     \/ /\ command # <<>>
        /\ invoked' = Append(invoked, "tmp")
        /\ IF Succeeded(command[1], tmp, FileName(path))
           THEN /\ tmp' = CmdDir(command[1], tmp, FileName(path))
                /\ pc' = "read_dir"
                /\ UNCHANGED <<tmp_exists, ret>>
           ELSE Bail
  /\ UNCHANGED <<live, prog, dry_run, file, command, path, new, ret_path>>
  /\ UNCHANGED <<bvars, dvars, lvars>>

\* (C1 mutant) the live invocation is not guarded by dry_run.
AfterReadLive(dr) == "run_live"

\* if !dry_run { ... }: where the call goes once the entry is read.
AfterRead(dr) == IF dr THEN "return" ELSE "run_live"

\* (C11 mutant) an empty listing falls back to the old file name.
ListedOrOld(d, n) == IF Entries(d) = {} THEN {n} ELSE Entries(d)

\* read_dir(tmp.path())?.next_entry()?: the entries that can come first in the
\* listing of d; none (Ok(None)) when d is empty, which the second `?` turns
\* into the error.
Listed(d, n) == Entries(d)

\* let new = read_dir(tmp.path())?.next_entry()??  Which entry comes first
\* when there are several is the file system's choice.
ReadDir ==
  /\ pc = "read_dir"
  /\ \/ /\ Bail
        /\ UNCHANGED new
     \/ /\ Listed(tmp, FileName(path)) = {}
        /\ Bail
        /\ UNCHANGED new
     \/ /\ \E e \in Listed(tmp, FileName(path)) : new' = e
        /\ pc' = AfterRead(dry_run)
        /\ UNCHANGED <<tmp_exists, tmp, ret>>
  /\ UNCHANGED <<live, prog, dry_run, file, command, path, ret_path, invoked>>
  /\ UNCHANGED <<bvars, dvars, lvars>>

\* if !dry_run { run_in(cmd, args + [file], dir)? }
RunInLive ==
  /\ pc = "run_live"
  /\ \/ /\ Bail
        /\ UNCHANGED <<live, invoked>>
     \/ /\ invoked' = Append(invoked, "live")
        /\ IF Succeeded(command[1], live, FileName(path))
           THEN /\ live' = CmdDir(command[1], live, FileName(path))
                /\ pc' = "return"
                /\ UNCHANGED <<tmp_exists, tmp, ret>>
           ELSE Bail /\ UNCHANGED live
  /\ UNCHANGED <<prog, dry_run, file, command, path, new, ret_path>>
  /\ UNCHANGED <<bvars, dvars, lvars>>

\* (C15 mutant) the path of the entry itself, inside the temporary directory.
NewPathOfEntry(dir, e) == Join(<<"tmp">>, e)

\* dir.join(new.file_name()): the file name of the entry, in the directory of
\* the canonicalized file.
NewPath(dir, e) == Join(dir, e)

\* Ok(dir.join(new.file_name())), and tmp is dropped
Return ==
  /\ pc = "return"
  /\ pc' = "done"
  /\ ret' = "ok"
  /\ ret_path' = NewPath(Parent(path), new)
  /\ tmp_exists' = FALSE
  /\ tmp' = EmptyDir
  /\ UNCHANGED <<live, prog, dry_run, file, command, path, new, invoked>>
  /\ UNCHANGED <<bvars, dvars, lvars>>

RNext ==
  \/ Tempdir
  \/ CanonicalizeStep
  \/ WritePlaceholder
  \/ RunInTmp
  \/ ReadDir
  \/ RunInLive
  \/ Return

SpecRename == RInit /\ [][RNext]_vars

\* ============================================================== batch-rename
\* print-rename as a child process of batch-rename: Args (clap) splits the
\* argument vector into the flag, the command and the trailing file.
ArgDryRun(args) == Len(args) > 0 /\ args[1] = "--dry-run"
ArgRest(args) == IF ArgDryRun(args) THEN Tail(args) ELSE args
ArgCommand(args) == SubSeq(ArgRest(args), 1, Len(ArgRest(args)) - 1)
ArgFile(args) == ArgRest(args)[Len(ArgRest(args))]

\* What one run of print-rename with `args` can end in when the live
\* directory is d: [ok, out, live], ok for exit status zero, out the path
\* printed on stdout, live the live directory afterwards.  The steps are those
\* of main (Tempdir .. Return above); the temporary directory is private to
\* the process, so only the command run in the live directory is visible to
\* other processes.
PrintRename(args, d) ==
  LET c == ArgCommand(args)[1]
      p == Canonicalize(ArgFile(args), d)
      n == FileName(p)
      t == TmpAfter(c, n)
      failed == [ok |-> FALSE, out |-> NoPath, live |-> d]
  IN  {failed} \cup
      IF p = NoPath \/ Parent(p) = NoPath \/ n = NoFile THEN {}
      ELSE IF ~CmdOk(c, [EmptyDir EXCEPT ![n] = Placeholder], n) THEN {}
      ELSE IF ArgDryRun(args)
           THEN {[ok |-> TRUE, out |-> Join(Parent(p), e), live |-> d] :
                   e \in Entries(t)}
      ELSE IF Entries(t) = {} \/ ~CmdOk(c, d, n) THEN {}
      ELSE {[ok |-> TRUE, out |-> Join(Parent(p), e), live |-> CmdDir(c, d, n)] :
              e \in Entries(t)}

\* str::from_utf8(&output)?.trim_end(): white space at the end of the printed
\* path is cut, so a name ending in white space loses it.
TrimEnd(n) == IF n = "a " THEN "a" ELSE n
ParseOutput(p) == Join(Parent(p), TrimEnd(FileName(p)))

\* .buffered(32)
DryRunLimit == 32

\* The single keystroke read by `read -s -n 1`; "" is the enter key.
Keys == {"", "y", "Y", "n", "N", "q", "Q", "x"}

\* (C10 mutant) the quit key is matched without regard to case.
DecisionCaseless(k) ==
  CASE k \in {"", "y", "Y"} -> "accept"
    [] k \in {"n", "N"} -> "reject"
    [] k \in {"q", "Q"} -> "quit"
    [] OTHER -> "unknown"

\* match output.as_slice() { ... }
Decision(k) ==
  CASE k \in {"", "y", "Y"} -> "accept"
    [] k \in {"n", "N"} -> "reject"
    [] k = "q" -> "quit"
    [] OTHER -> "unknown"

BatchFiles == {"a", "b", "c", "l"}
FileLists == UNION {[1..n -> BatchFiles] : n \in 0..MaxFiles}

Init ==
  /\ live = LiveDir0
  /\ files \in FileLists
  /\ cmd \in {<<c>> : c \in Cmds}
  /\ run = 1
  /\ pulled = 0
  /\ consumed = 0
  /\ dry = [i \in 1..Len(files) |-> [st |-> "none", out |-> NoPath]]
  /\ mpc = "next"
  /\ cur = 0
  /\ tasks = <<>>
  /\ decision = [i \in 1..Len(files) |-> "none"]
  /\ shown = [i \in 1..Len(files) |-> 0]
  /\ misunderstood = 0
  /\ result = "none"
  /\ IdleRename /\ IdleDryLoad /\ IdleRealLoad

\* (C19 mutant) the real-rename child is given the proposed name.
RealArgsDst(i) == cmd \o <<FileName(ParseOutput(dry[i].out))>>

\* Arguments of the dry-run child of file i and of the real-rename child.
DryArgs(i) == <<"--dry-run">> \o cmd \o <<files[i]>>
RealArgs(i) == cmd \o <<files[i]>>

\* Buffered::poll_next, first half: while the queue holds fewer than 32
\* futures, take the next file and spawn_blocking its dry run.
CanPull == pulled - consumed < DryRunLimit /\ pulled < Len(files)

PollSpawn ==
  /\ mpc = "next"
  /\ CanPull
  /\ pulled' = pulled + 1
  /\ dry' = [dry EXCEPT ![pulled + 1].st = "pending"]
  /\ UNCHANGED <<live, files, cmd, run, consumed, mpc, cur, tasks, decision, shown,
                 misunderstood, result>>
  /\ UNCHANGED <<rvars, dvars, lvars>>

\* A dry-run task runs `print-rename --dry-run cmd... file` to its end.
DryFinish(i) ==
  /\ mpc # "exited"
  /\ dry[i].st = "pending"
  /\ \E o \in PrintRename(DryArgs(i), live) :
       /\ dry' = [dry EXCEPT ![i] = [st |-> IF o.ok THEN "ok" ELSE "err",
                                     out |-> o.out]]
       /\ live' = o.live
  /\ UNCHANGED <<files, cmd, run, pulled, consumed, mpc, cur, tasks, decision, shown,
                 misunderstood, result>>
  /\ UNCHANGED <<rvars, dvars, lvars>>

\* (C6 mutant) the error of a dry run is not propagated.
FailedNever(r) == FALSE

\* `result??`: the dry run of the file failed.
Failed(r) == r.st = "err"

\* (C3 mutant) the comparison never skips.
SameNameNever(src_file, dst_file) == FALSE

\* if src_file == dst_file { continue }
SameName(src_file, dst_file) == src_file = dst_file

\* main returns: the runtime is dropped next.
ReturnMain(r) ==
  /\ mpc' = "returned"
  /\ result' = r
  /\ cur' = 0

\* (C16 mutant) the future spawned last is the one yielded.
NextOutNewest == pulled

\* FuturesOrdered: the future yielded next is the oldest one of the queue,
\* that of the first file not yet consumed.
NextOut == consumed + 1

\* Buffered::poll_next, second half, and the head of the loop body: the
\* oldest future of the queue is ready; `result??`, the two file names, and
\* `if src_file == dst_file { continue }`, else the first prompt is printed.
PollYield ==
  /\ mpc = "next"
  /\ ~CanPull
  /\ consumed < pulled
  /\ LET i == NextOut
         dst == ParseOutput(dry[i].out)
     IN  /\ dry[i].st \in {"ok", "err"}
         /\ consumed' = i
         /\ IF Failed(dry[i])
            THEN ReturnMain("err") /\ UNCHANGED shown
            ELSE IF SameName(FileName(<<files[i]>>), FileName(dst))
            THEN UNCHANGED <<mpc, cur, result, shown>>
            ELSE /\ mpc' = "prompt"
                 /\ cur' = i
                 /\ shown' = [shown EXCEPT ![i] = @ + 1]
                 /\ UNCHANGED result
  /\ UNCHANGED <<live, files, cmd, run, pulled, dry, tasks, decision, misunderstood>>
  /\ UNCHANGED <<rvars, dvars, lvars>>

\* The stream is exhausted: while let ends, Ok(()).
PollEnd ==
  /\ mpc = "next"
  /\ pulled = Len(files)
  /\ consumed = pulled
  /\ ReturnMain("ok")
  /\ UNCHANGED <<live, files, cmd, run, pulled, consumed, dry, tasks, decision, shown,
                 misunderstood>>
  /\ UNCHANGED <<rvars, dvars, lvars>>

\* (C2 mutant) a task is spawned unless the answer is a reject.
SpawnedUnlessReject(k, i) ==
  IF Decision(k) # "reject"
  THEN <<[idx |-> i, args |-> cmd \o <<files[i]>>, st |-> "queued"]>>
  ELSE <<>>

\* (C18 mutant) the task is awaited: it has run when the arm is left.
SpawnedAwaited(k, i) ==
  IF Decision(k) = "accept"
  THEN <<[idx |-> i, args |-> RealArgs(i), st |-> "ok"]>>
  ELSE <<>>

\* The arm of the match taken for keystroke k at the prompt of file i: the
\* real-rename tasks it spawns (spawn_blocking of `print-rename cmd... src`,
\* the handle dropped).
Spawned(k, i) ==
  IF Decision(k) = "accept"
  THEN <<[idx |-> i, args |-> RealArgs(i), st |-> "queued"]>>
  ELSE <<>>

\* (C17 mutant) every arm but the quit arm leaves the prompt loop.
BreaksUnlessQuit(k) == Decision(k) # "quit"

\* The arms that end in `break`: the prompt loop of the file is left.
Breaks(k) == Decision(k) \in {"accept", "reject"}

\* The keystroke k is read at the prompt and matched.
ReadKey(k) ==
  /\ mpc = "prompt"
  /\ decision' = [decision EXCEPT ![cur] = Decision(k)]
  /\ tasks' = tasks \o Spawned(k, cur)
  /\ CASE Breaks(k) ->
            \* break: back to src_dst.next()
            /\ mpc' = "next"
            /\ cur' = 0
            /\ UNCHANGED <<result, shown, misunderstood>>
       [] Decision(k) = "quit" ->
            \* return Ok(())
            /\ ReturnMain("ok")
            /\ UNCHANGED <<shown, misunderstood>>
       [] OTHER ->
            \* "Response ... not understood", and the loop prints the prompt again
            /\ misunderstood < MaxRetries
            /\ misunderstood' = misunderstood + 1
            /\ shown' = [shown EXCEPT ![cur] = @ + 1]
            /\ UNCHANGED <<mpc, cur, result>>
  /\ UNCHANGED <<live, files, cmd, run, pulled, consumed, dry>>
  /\ UNCHANGED <<rvars, dvars, lvars>>

\* The keystroke cannot be read (bash fails): `.await??` returns the error.
ReadFail ==
  /\ mpc = "prompt"
  /\ ReturnMain("err")
  /\ UNCHANGED <<live, files, cmd, run, pulled, consumed, dry, tasks, decision, shown,
                 misunderstood>>
  /\ UNCHANGED <<rvars, dvars, lvars>>

\* A thread of the blocking pool picks the queued task up.
TaskStart(t) ==
  /\ mpc # "exited"
  /\ tasks[t].st = "queued"
  /\ tasks' = [tasks EXCEPT ![t].st = "running"]
  /\ UNCHANGED <<live, files, cmd, run, pulled, consumed, dry, mpc, cur, decision,
                 shown, misunderstood, result>>
  /\ UNCHANGED <<rvars, dvars, lvars>>

\* (C7 mutant) a failed task takes the tasks still queued down with it.
FinishedAborting(ts, t, ok) ==
  [u \in 1..Len(ts) |->
     IF u = t THEN [ts[u] EXCEPT !.st = IF ok THEN "ok" ELSE "err"]
     ELSE IF ~ok /\ ts[u].st = "queued" THEN [ts[u] EXCEPT !.st = "cancelled"]
     ELSE ts[u]]

\* The task list once task t has ended: only its own state changes, its
\* Result stays in the dropped JoinHandle.
Finished(ts, t, ok) == [ts EXCEPT ![t].st = IF ok THEN "ok" ELSE "err"]

\* The task's child `print-rename cmd... src` runs to its end.
TaskFinish(t) ==
  /\ tasks[t].st = "running"
  /\ \E o \in PrintRename(tasks[t].args, live) :
       /\ tasks' = Finished(tasks, t, o.ok)
       /\ live' = o.live
  /\ UNCHANGED <<files, cmd, run, pulled, consumed, dry, mpc, cur, decision, shown,
                 misunderstood, result>>
  /\ UNCHANGED <<rvars, dvars, lvars>>

\* #[tokio::main]: when main has returned the runtime is dropped.  The drop
\* waits for the blocking tasks that are running; a task still in the pool's
\* queue is dropped without having run.
TaskCancel(t) ==
  /\ mpc = "returned"
  /\ tasks[t].st = "queued"
  /\ tasks' = [tasks EXCEPT ![t].st = "cancelled"]
  /\ UNCHANGED <<live, files, cmd, run, pulled, consumed, dry, mpc, cur, decision,
                 shown, misunderstood, result>>
  /\ UNCHANGED <<rvars, dvars, lvars>>

DryCancel(i) ==
  /\ mpc = "returned"
  /\ dry[i].st = "pending"
  /\ dry' = [dry EXCEPT ![i].st = "cancelled"]
  /\ UNCHANGED <<live, files, cmd, run, pulled, consumed, mpc, cur, tasks, decision,
                 shown, misunderstood, result>>
  /\ UNCHANGED <<rvars, dvars, lvars>>

\* The runtime is down and the process exits with main's result.
Exit ==
  /\ mpc = "returned"
  /\ \A i \in 1..Len(files) : dry[i].st # "pending"
  /\ \A t \in 1..Len(tasks) : tasks[t].st \notin {"queued", "running"}
  /\ mpc' = "exited"
  /\ UNCHANGED <<live, files, cmd, run, pulled, consumed, dry, cur, tasks, decision,
                 shown, misunderstood, result>>
  /\ UNCHANGED <<rvars, dvars, lvars>>

Next ==
  \/ PollSpawn
  \/ \E i \in 1..Len(files) : DryFinish(i)
  \/ PollYield
  \/ PollEnd
  \/ \E k \in Keys : ReadKey(k)
  \/ ReadFail
  \/ \E t \in 1..Len(tasks) : TaskStart(t)
  \/ \E t \in 1..Len(tasks) : TaskFinish(t)
  \/ \E t \in 1..Len(tasks) : TaskCancel(t)
  \/ \E i \in 1..Len(files) : DryCancel(i)
  \/ Exit

Spec == Init /\ [][Next]_vars

\* ------------------------------------------------- batch-rename, run twice
\* The round trip: batch-rename is run with a command that is its own inverse
\* on file names, every prompt is accepted, and then it is run again with the
\* same command over the files under their new names.
SelfInverse == {"swap", "keep"}

\* The directory of the round trip: no name the command renames to is taken.
TwiceDir0 == [LiveDir0 EXCEPT !["b"] = NoFile]

TInit ==
  /\ live = TwiceDir0
  /\ files \in FileLists
  /\ cmd \in {<<c>> : c \in SelfInverse}
  /\ run = 1
  /\ pulled = 0
  /\ consumed = 0
  /\ dry = [i \in 1..Len(files) |-> [st |-> "none", out |-> NoPath]]
  /\ mpc = "next"
  /\ cur = 0
  /\ tasks = <<>>
  /\ decision = [i \in 1..Len(files) |-> "none"]
  /\ shown = [i \in 1..Len(files) |-> 0]
  /\ misunderstood = 0
  /\ result = "none"
  /\ IdleRename /\ IdleDryLoad /\ IdleRealLoad

\* The name file i goes by after the run: dst_file of its prompt.
Renamed(i) ==
  IF dry[i].st = "ok" THEN FileName(ParseOutput(dry[i].out)) ELSE files[i]

\* The first process has exited with status zero and every prompt it showed
\* was accepted; batch-rename is started again, with the same command, over
\* the new names.
Rerun ==
  /\ run = 1
  /\ mpc = "exited"
  /\ result = "ok"
  /\ \A i \in 1..Len(files) : shown[i] > 0 => decision[i] = "accept"
  /\ run' = 2
  /\ files' = [i \in 1..Len(files) |-> Renamed(i)]
  /\ pulled' = 0
  /\ consumed' = 0
  /\ dry' = [i \in 1..Len(files) |-> [st |-> "none", out |-> NoPath]]
  /\ mpc' = "next"
  /\ cur' = 0
  /\ tasks' = <<>>
  /\ decision' = [i \in 1..Len(files) |-> "none"]
  /\ shown' = [i \in 1..Len(files) |-> 0]
  /\ misunderstood' = 0
  /\ result' = "none"
  /\ UNCHANGED <<live, cmd>>
  /\ UNCHANGED <<rvars, dvars, lvars>>

TNext ==
  \/ Next
  \/ Rerun

SpecTwice == TInit /\ [][TNext]_vars

\* ================================================ batch-rename under load
\* The same main with many files, seen through the number of dry-run tasks
\* only.  The tasks of the window are interchangeable but for the oldest one,
\* which is the one src_dst.next() waits for, so the window is held as
\* counts: d_pulled - d_consumed tasks, d_done of them completed, and
\* d_head telling whether the oldest one is among the completed ones.
DWindow == d_pulled - d_consumed
DPending == DWindow - d_done

DInit ==
  /\ live = LiveDir0
  /\ d_files \in (DryRunLimit - 1)..(DryRunLimit + ExtraFiles)
  /\ d_pulled = 0
  /\ d_consumed = 0
  /\ d_done = 0
  /\ d_head = FALSE
  /\ d_pc = "next"
  /\ IdleRename /\ IdleBatch /\ IdleRealLoad

\* (C8 mutant) the queue is filled while it holds at most 32 futures.
DCanPullOneMore == DWindow <= DryRunLimit /\ d_pulled < d_files

\* Buffered::poll_next: in_progress_queue.len() < max, and a file is left.
DCanPull == DWindow < DryRunLimit /\ d_pulled < d_files

\* The next file is taken from the iterator and its dry run spawned.
DPollSpawn ==
  /\ d_pc = "next"
  /\ DCanPull
  /\ d_pulled' = d_pulled + 1
  /\ UNCHANGED <<d_files, d_consumed, d_done, d_head, d_pc>>
  /\ UNCHANGED <<live, rvars, bvars, lvars>>

\* The oldest task of the window completes.
DFinishHead ==
  /\ DWindow > 0
  /\ ~d_head
  /\ d_head' = TRUE
  /\ d_done' = d_done + 1
  /\ UNCHANGED <<d_files, d_pulled, d_consumed, d_pc>>
  /\ UNCHANGED <<live, rvars, bvars, lvars>>

\* A task of the window that is not the oldest one completes.
DFinishOther ==
  /\ DPending > (IF d_head THEN 0 ELSE 1)
  /\ d_done' = d_done + 1
  /\ UNCHANGED <<d_files, d_pulled, d_consumed, d_head, d_pc>>
  /\ UNCHANGED <<live, rvars, bvars, lvars>>

\* src_dst.next() yields the oldest result; the task behind it becomes the
\* oldest, completed already or not.
DPollYield ==
  /\ d_pc = "next"
  /\ ~DCanPull
  /\ d_head
  /\ d_consumed' = d_consumed + 1
  /\ d_done' = d_done - 1
  /\ \E h \in BOOLEAN :
       /\ h => d_done - 1 >= 1
       /\ ~h => (DWindow - 1 = 0 \/ DPending >= 1)
       /\ d_head' = h
  /\ d_pc' = "body"
  /\ UNCHANGED <<d_files, d_pulled>>
  /\ UNCHANGED <<live, rvars, bvars, lvars>>

\* The loop body ends in continue or break: back to src_dst.next().
DBodyContinue ==
  /\ d_pc = "body"
  /\ d_pc' = "next"
  /\ UNCHANGED <<d_files, d_pulled, d_consumed, d_done, d_head>>
  /\ UNCHANGED <<live, rvars, bvars, lvars>>

\* The loop body returns: `?` on an error, or the quit key.
DBodyReturn ==
  /\ d_pc = "body"
  /\ d_pc' = "returned"
  /\ UNCHANGED <<d_files, d_pulled, d_consumed, d_done, d_head>>
  /\ UNCHANGED <<live, rvars, bvars, lvars>>

\* The stream is exhausted.
DPollEnd ==
  /\ d_pc = "next"
  /\ d_pulled = d_files
  /\ DWindow = 0
  /\ d_pc' = "returned"
  /\ UNCHANGED <<d_files, d_pulled, d_consumed, d_done, d_head>>
  /\ UNCHANGED <<live, rvars, bvars, lvars>>

DNext ==
  \/ DPollSpawn
  \/ DFinishHead
  \/ DFinishOther
  \/ DPollYield
  \/ DBodyContinue
  \/ DBodyReturn
  \/ DPollEnd

SpecDryLoad == DInit /\ [][DNext]_vars

\* The same main with many files, seen through the number of real-rename
\* tasks only: every loop iteration ends without a prompt (error, or same
\* name) or with a prompt, and an accepted prompt spawns one task.
\* The cap on running real renames that the documentation states; the source
\* has no such number.
RealLimit == 2 * DryRunLimit

LInit ==
  /\ live = LiveDir0
  /\ l_files \in RealLimit..(RealLimit + ExtraFiles)
  /\ l_consumed = 0
  /\ l_queued = 0
  /\ l_running = 0
  /\ l_pc = "next"
  /\ IdleRename /\ IdleBatch /\ IdleDryLoad

\* src_dst.next() yields a result.
LPollYield ==
  /\ l_pc = "next"
  /\ l_consumed < l_files
  /\ l_consumed' = l_consumed + 1
  /\ \/ l_pc' = "next"       \* same name: continue
     \/ l_pc' = "prompt"     \* the prompt is printed
     \/ l_pc' = "returned"   \* `result??`
  /\ UNCHANGED <<l_files, l_queued, l_running>>
  /\ UNCHANGED <<live, rvars, bvars, dvars>>

LPollEnd ==
  /\ l_pc = "next"
  /\ l_consumed = l_files
  /\ l_pc' = "returned"
  /\ UNCHANGED <<l_files, l_consumed, l_queued, l_running>>
  /\ UNCHANGED <<live, rvars, bvars, dvars>>

\* The answer read at the prompt; an answer not understood leaves the state
\* as it is.
LReadKey(k) ==
  /\ l_pc = "prompt"
  /\ Decision(k) # "unknown"
  /\ l_queued' = l_queued + (IF Decision(k) = "accept" THEN 1 ELSE 0)
  /\ l_pc' = IF Decision(k) = "quit" THEN "returned" ELSE "next"
  /\ UNCHANGED <<l_files, l_consumed, l_running>>
  /\ UNCHANGED <<live, rvars, bvars, dvars>>

\* A thread of the blocking pool picks a queued task up.
LTaskStart ==
  /\ l_queued > 0
  /\ l_queued' = l_queued - 1
  /\ l_running' = l_running + 1
  /\ UNCHANGED <<l_files, l_consumed, l_pc>>
  /\ UNCHANGED <<live, rvars, bvars, dvars>>

LTaskFinish ==
  /\ l_running > 0
  /\ l_running' = l_running - 1
  /\ UNCHANGED <<l_files, l_consumed, l_queued, l_pc>>
  /\ UNCHANGED <<live, rvars, bvars, dvars>>

\* The runtime is dropped: a task still queued is dropped without running.
LTaskCancel ==
  /\ l_pc = "returned"
  /\ l_queued > 0
  /\ l_queued' = l_queued - 1
  /\ UNCHANGED <<l_files, l_consumed, l_running, l_pc>>
  /\ UNCHANGED <<live, rvars, bvars, dvars>>

LNext ==
  \/ LPollYield
  \/ LPollEnd
  \/ \E k \in Keys : LReadKey(k)
  \/ LTaskStart
  \/ LTaskFinish
  \/ LTaskCancel

SpecRealLoad == LInit /\ [][LNext]_vars

\* ================================================================== claims
TasksOf(i) == {t \in 1..Len(tasks) : tasks[t].idx = i}

\* C1: in dry-run mode the command is run only with the temporary directory
\* as working directory, and the entries of the live directory are in every
\* state of the call what they were before it.
C1_DryRunKeepsLive ==
  dry_run => /\ live = LiveDir0
             /\ \A k \in 1..Len(invoked) : invoked[k] = "tmp"

C1_Witness ==
  /\ dry_run /\ pc = "done" /\ ret = "ok"
  /\ invoked = <<"tmp">>
  /\ FileName(ret_path) # file

\* C2: a file has a real-rename task only if the answer matched at its prompt
\* is an accept, and then exactly one, with the original command followed by
\* the original path as arguments; a reject or a quit leaves it without one.
C2_SpawnOnlyOnAccept ==
  \A i \in 1..Len(files) :
    /\ Cardinality(TasksOf(i)) = IF decision[i] = "accept" THEN 1 ELSE 0
    /\ \A t \in TasksOf(i) : tasks[t].args = cmd \o <<files[i]>>

C2_Witness ==
  /\ Len(files) = 2
  /\ decision[1] = "accept" /\ decision[2] = "quit"
  /\ Len(tasks) = 1 /\ tasks[1].idx = 1

C4_QuitDrainsTasks ==
  /\ (\E i \in 1..Len(files) : decision[i] = "quit") => mpc \in {"returned", "exited"}
  /\ (mpc = "exited" /\ \E i \in 1..Len(files) : decision[i] = "quit")
       => \A t \in 1..Len(tasks) : tasks[t].st \in {"ok", "err"}

\* C5: when a spawned real-rename task has failed, the result the process
\* exits with is an error.
C5_FailureIsReported ==
  (mpc = "exited" /\ \E t \in 1..Len(tasks) : tasks[t].st = "err") => result = "err"

\* C6: once the failed dry run of a file has been consumed, main has returned
\* an error, and from then on no prompt is printed and no task is spawned.
FailureConsumed == \E i \in 1..consumed : dry[i].st = "err"

C6_DryFailureAborts ==
  /\ [](FailureConsumed => mpc \in {"returned", "exited"} /\ result = "err" /\ cur = 0)
  /\ [][FailureConsumed => shown' = shown /\ Len(tasks') = Len(tasks)]_vars

C6_Witness ==
  /\ Len(files) = 2 /\ consumed = 1 /\ dry[1].st = "err"
  /\ dry[2].st = "ok" /\ FileName(dry[2].out) # files[2]
  /\ mpc = "exited" /\ result = "err"

\* C7: the step in which a real-rename task fails changes no other task, adds
\* and removes no task, leaves the live directory as the other renames made
\* it, and leaves main where it is, so that later files are still prompted.
C7_FailureLeavesOthers ==
  [][\A t \in 1..Len(tasks) :
       (tasks[t].st = "running" /\ Len(tasks') = Len(tasks) /\ tasks'[t].st = "err")
         => /\ \A u \in 1..Len(tasks) : u # t => tasks'[u] = tasks[u]
            /\ live' = live
            /\ mpc' = mpc /\ cur' = cur /\ result' = result]_vars

C7_Witness ==
  /\ Len(tasks) = 2
  /\ tasks[1].st = "err" /\ tasks[2].st = "ok"
  /\ live # LiveDir0

\* C8: the dry-run tasks that were spawned and have not completed are never
\* more than 32.
C8_DryRunsAtMost32 == DPending <= DryRunLimit /\ DWindow <= DryRunLimit

C8_Witness ==
  /\ d_files > DryRunLimit
  /\ DPending = DryRunLimit
  /\ d_consumed > 0

\* C9: the real-rename tasks running at the same time are never more than 64.
C9_RealRunsAtMost64 == l_running <= RealLimit

\* C10: a keystroke that is none of enter, y, Y, n, N, q is reported as not
\* understood, spawns no task, does not end the batch and prints the prompt of
\* the same file again; the prompt is left for the next file only by an
\* accept or a reject.
C10_UnknownKeyRepeatsPrompt ==
  /\ [][\A k \in Keys :
          (k \notin {"", "y", "Y", "n", "N", "q"} /\ ReadKey(k))
            => /\ misunderstood' = misunderstood + 1
               /\ tasks' = tasks
               /\ mpc' = "prompt" /\ cur' = cur /\ result' = "none"
               /\ shown'[cur] = shown[cur] + 1
               /\ consumed' = consumed]_vars
  /\ [][(mpc = "prompt" /\ mpc' = "next") =>
          decision'[cur] \in {"accept", "reject"}]_vars

C10_Witness ==
  /\ misunderstood = 1 /\ mpc = "prompt"
  /\ decision[cur] = "unknown" /\ shown[cur] = 2 /\ tasks = <<>>


\* C11: when the command leaves the temporary directory without any entry,
\* the call ends there with an error and no path: the command is not run in
\* the live directory, which stays as it was, and nothing follows the return.
C11_EmptyListingIsError ==
  /\ [][(pc = "read_dir" /\ Entries(tmp) = {}) =>
          /\ pc' = "done"
          /\ ret' = "err"
          /\ ret_path' = NoPath
          /\ invoked' = invoked
          /\ live' = live]_vars
  /\ [][pc = "done" => FALSE]_vars

\* rename("a", rm, dry_run = false) has returned: the command ran in the
\* temporary directory only, the call failed and a is still there.
C11_Witness ==
  /\ command = <<"rm">> /\ ~dry_run /\ file = "a"
  /\ pc = "done" /\ ret = "err" /\ invoked = <<"tmp">>
  /\ live = LiveDir0

\* C12: when the command leaves more than one entry in the temporary
\* directory, the call goes on neither to the live invocation nor to the
\* return of a proposed path.
C12_ExtraEntriesRejected ==
  Cardinality(Entries(tmp)) > 1 => pc \notin {"run_live", "return"}

\* C14: once the call has ended, on whichever path, the temporary directory
\* is gone.
C14_TmpRemoved ==
  pc = "done" => ~tmp_exists /\ Entries(tmp) = {}

\* The call failed in the live invocation, the last of the exit paths, after
\* the temporary directory was created and used.
C14_Witness ==
  /\ pc = "done" /\ ret = "err" /\ invoked = <<"tmp", "live">>
  /\ ~tmp_exists

\* C15: a returned path is the file name read from the temporary directory
\* joined to the parent of the canonicalized file; it is never a path inside
\* the temporary directory.
C15_PathInLiveDir ==
  ret = "ok" =>
    /\ Parent(ret_path) = Parent(Canonicalize(file, LiveDir0))
    /\ FileName(ret_path) = new
    /\ new \in Names
    /\ Parent(ret_path) # <<"tmp">>

\* rename("l", swap) returned: l is a link to c, and the path is live/c.
C15_Witness ==
  /\ pc = "done" /\ ret = "ok" /\ file = "l" /\ command = <<"swap">>
  /\ ret_path = <<LiveRoot, "c">>

\* C20: the command runs at most once in the temporary directory and then at
\* most once in the live directory; it runs in the live directory only with
\* dry_run = false, after it exited with status zero in the temporary
\* directory and an entry was read; and a live invocation that fails ends the
\* call with an error and no path.
C20_LiveAfterTmp ==
  /\ [](/\ invoked \in {<<>>, <<"tmp">>, <<"tmp", "live">>}
        /\ Len(invoked) = 2 =>
             /\ ~dry_run
             /\ new # NoFile
             /\ CmdOk(command[1], [EmptyDir EXCEPT ![FileName(path)] = Placeholder],
                      FileName(path)))
  /\ [][(pc = "run_live" /\ ~CmdOk(command[1], live, FileName(path))) =>
          /\ pc' = "done"
          /\ ret' = "err"
          /\ ret_path' = NoPath
          /\ live' = live]_vars

\* rename("a", keep, dry_run = false): the command renamed the placeholder,
\* then refused in the live directory, where b exists; the call failed.
C20_Witness ==
  /\ command = <<"keep">> /\ file = "a" /\ ~dry_run
  /\ pc = "done" /\ ret = "err" /\ invoked = <<"tmp", "live">>
  /\ new = "b" /\ live = LiveDir0


\* C13: when the batch was run twice with a command that is its own inverse,
\* the second time over the new names, and every prompt of both runs was
\* accepted, the live directory has exactly the names it started with.
C13_RoundTrip ==
  ( /\ run = 2
    /\ mpc = "exited"
    /\ result = "ok"
    /\ \A i \in 1..Len(files) : shown[i] > 0 => decision[i] = "accept" )
  => Entries(live) = Entries(TwiceDir0)

\* C16 as stated, results taken in the order of completion: whenever main
\* waits in src_dst.next() and some spawned dry run has completed and is not
\* yet consumed, a result can be taken.
C16_CompletionOrder ==
  ( /\ mpc = "next"
    /\ ~CanPull
    /\ \E j \in (consumed + 1)..pulled : dry[j].st \in {"ok", "err"} )
  => ENABLED PollYield

\* C16: results are taken in the order of the file arguments: when the prompt
\* of a file has been shown, the dry run of every file before it had
\* completed and been consumed, whichever of them completed first.
C16_InputOrder ==
  \A j \in 1..Len(files) :
    shown[j] > 0 => \A i \in 1..(j - 1) : dry[i].st = "ok" /\ i <= consumed

\* The dry run of the second file has completed, that of the first has not,
\* and main waits in src_dst.next() without a prompt for the second file.
C16_Witness ==
  /\ Len(files) = 2 /\ mpc = "next" /\ pulled = 2 /\ consumed = 0
  /\ dry[1].st = "pending" /\ dry[2].st = "ok"
  /\ FileName(ParseOutput(dry[2].out)) # files[2]
  /\ shown[2] = 0

\* The files whose prompt is on the terminal without an accept or a reject.
Awaiting ==
  {i \in 1..Len(files) : shown[i] > 0 /\ decision[i] \in {"none", "unknown"}}

\* C17: at most one file has a prompt awaiting its answer, the file main is
\* at; and when the prompt of a file is shown for the first time, every file
\* prompted before it has been accepted or rejected.
C17_OnePromptAtATime ==
  /\ [](Cardinality(Awaiting) <= 1 /\ (mpc = "prompt" => Awaiting = {cur}))
  /\ [][\A j \in 1..Len(files) :
          (shown[j] = 0 /\ shown'[j] > 0) =>
            \A i \in 1..Len(files) \ {j} :
              shown[i] > 0 => decision[i] \in {"accept", "reject"}]_vars

\* The prompt of the second file is pending after the first was rejected on
\* its second prompt, while dry runs went on around the prompts.
C17_Witness ==
  /\ Len(files) = 2 /\ mpc = "prompt" /\ cur = 2
  /\ shown[1] = 2 /\ decision[1] = "reject" /\ decision[2] = "none"

\* C18: an accept spawns the real rename and leaves the prompt loop at once:
\* main is back in src_dst.next() while the task has not run yet.
C18_FireAndForget ==
  [][Len(tasks') > Len(tasks) =>
       /\ mpc' = "next"
       /\ tasks'[Len(tasks')].st = "queued"]_vars

\* The prompt of the second file is pending while the real rename of the
\* first, accepted, file is running.
C18_Witness ==
  /\ Len(files) = 2 /\ mpc = "prompt" /\ cur = 2 /\ decision[1] = "accept"
  /\ \E t \in 1..Len(tasks) : tasks[t].idx = 1 /\ tasks[t].st = "running"

\* C19 as stated: the entry of no accepted file is ever removed or overwritten
\* by the rename of another: what each accepted file held is still in the
\* live directory, under its old name or its new one.
C19_OthersKept ==
  \A i \in 1..Len(files) :
    LET p == Canonicalize(files[i], LiveDir0)
    IN  decision[i] = "accept" => \E n \in Names : live[n] = LiveDir0[FileName(p)]

\* C19: the live directory changes only when a real-rename task ends well,
\* and then by the command run on the name of the task's own file: the
\* entries of that name and of the name the command gives it, no other.
C19_OwnFileOnly ==
  [][live' # live =>
       \E t \in 1..Len(tasks) :
         /\ tasks[t].st = "running"
         /\ tasks'[t].st = "ok"
         /\ LET p == Canonicalize(files[tasks[t].idx], live)
                n == FileName(p)
            IN  /\ p # NoPath
                /\ live' = CmdDir(cmd[1], live, n)
                /\ \A m \in Names \ {n, Target(cmd[1], n)} :
                     live'[m] = live[m]]_vars

\* a and b were both accepted for the new name c, and both renames ran: one
\* entry c is left of the two files.
C19_Witness ==
  /\ files = <<"a", "b">> /\ cmd = <<"toC">>
  /\ Len(tasks) = 2 /\ tasks[1].st = "ok" /\ tasks[2].st = "ok"
  /\ Entries(live) = {"c", "l"}

====
